---------------------------- MODULE Spec2Model ----------------------------
(***************************************************************************)
(* Conversation-turn engine of the push-to-talk Assistant sample           *)
(* (googlesamples/assistant/grpc/pushtotalk.py): SampleAssistant.assist    *)
(* under its tenacity retry decorator, the request generator               *)
(* gen_assist_requests, the session context manager and the part of main   *)
(* that drives the turns.                                                  *)
(***************************************************************************)
EXTENDS Integers, Sequences, FiniteSets, TLC

(***************************************************************************)
(* Bounds of the model.                                                    *)
(***************************************************************************)
MaxTurns == 2
MaxMsgs == 2
MaxChunks == 2
MaxHandles == 1

(***************************************************************************)
(* Program constants.                                                      *)
(***************************************************************************)
StopAfterAttempt == 3
Reraise == TRUE
DefaultVolume == 50

END_OF_UTTERANCE == "END_OF_UTTERANCE"
EVENT_UNSPECIFIED == "EVENT_TYPE_UNSPECIFIED"
MICROPHONE_MODE_UNSPECIFIED == "MICROPHONE_MODE_UNSPECIFIED"
DIALOG_FOLLOW_ON == "DIALOG_FOLLOW_ON"
CLOSE_MICROPHONE == "CLOSE_MICROPHONE"
PLAYING == "PLAYING"
None == "None"

(***************************************************************************)
(* Inbound AssistResponse messages.  A field left at its protobuf default  *)
(* ("" for bytes and strings, 0 for numbers, the UNSPECIFIED enum value)   *)
(* is an absent field.                                                     *)
(***************************************************************************)
MalformedJson == "{"
UnregisteredRequest == "{command: unregistered}"
RegisteredRequest == "{command: OnOff}"

\* The audio payloads of the service, in the order it sends them: the k-th
\* response with audio of an attempt carries Chunks[k].
Chunks == << "AB", "CD", "EF", "GH", "IJ", "KL" >>

\* The shapes of a response; "audio" stands for the next audio payload.
AllResponses ==
    [ event_type : {EVENT_UNSPECIFIED, END_OF_UTTERANCE},
      audio_data : {"", "audio"},
      conversation_state : {"", "t1", "t2"},
      volume_percentage : {0, 80},
      microphone_mode : {MICROPHONE_MODE_UNSPECIFIED, CLOSE_MICROPHONE,
                         DIALOG_FOLLOW_ON},
      device_request_json : {"", MalformedJson, UnregisteredRequest,
                             RegisteredRequest} ]

\* Which of the top-level fields event_type, audio_out, dialog_state_out
\* and device_action a response carries.
Present(m) ==
    { f \in {"event_type", "audio_out", "dialog_state_out", "device_action"} :
        \/ f = "event_type" /\ m.event_type # EVENT_UNSPECIFIED
        \/ f = "audio_out" /\ m.audio_data # ""
        \/ f = "dialog_state_out"
              /\ \/ m.conversation_state # ""
                 \/ m.volume_percentage # 0
                 \/ m.microphone_mode # MICROPHONE_MODE_UNSPECIFIED
        \/ f = "device_action" /\ m.device_request_json # "" }

\* The responses the service sends: each carries one of the top-level
\* fields (a dialog_state_out with any of its parts), or none.  The loop
\* applies its rules to the fields one after the other, so a response
\* carrying several fields acts as the sequence of its fields.
Responses == { m \in AllResponses : Cardinality(Present(m)) <= 1 }

\* The response of shape m sent after k responses with audio.
Response(m, k) ==
    [m EXCEPT !.audio_data = IF @ = "" THEN "" ELSE Chunks[k + 1]]

\* The inbound stream of the end-to-end scenario: the end of the utterance,
\* one audio payload, the request to close the microphone.
NoFields ==
    [ event_type |-> EVENT_UNSPECIFIED, audio_data |-> "",
      conversation_state |-> "", volume_percentage |-> 0,
      microphone_mode |-> MICROPHONE_MODE_UNSPECIFIED,
      device_request_json |-> "" ]

ScenarioStream ==
    << [NoFields EXCEPT !.event_type = END_OF_UTTERANCE],
       [NoFields EXCEPT !.audio_data = "AB"],
       [NoFields EXCEPT !.microphone_mode = CLOSE_MICROPHONE] >>

\* An inbound stream with a device request that has no registered handler:
\* the request to keep the microphone open, then the device request.
IgnoredRequest == [NoFields EXCEPT !.device_request_json = UnregisteredRequest]

IgnoredStream ==
    << [NoFields EXCEPT !.microphone_mode = DIALOG_FOLLOW_ON],
       IgnoredRequest >>

(***************************************************************************)
(* Failures of an attempt: gRPC errors with a status code, and errors that *)
(* are not gRPC errors.                                                    *)
(***************************************************************************)
RpcUnavailable == [rpc |-> TRUE, code |-> "UNAVAILABLE"]
RpcDeadline == [rpc |-> TRUE, code |-> "DEADLINE_EXCEEDED"]
JsonValueError == [rpc |-> FALSE, code |-> "ValueError"]
RetryError == [rpc |-> FALSE, code |-> "RetryError"]
HandlerError == [rpc |-> FALSE, code |-> "HandlerError"]
NoError == [rpc |-> FALSE, code |-> "none"]
TransportErrors == {RpcUnavailable, RpcDeadline}

VARIABLES
    mode,                   \* how main drives the session: one turn (file
                            \* arguments or --once) or hotword detection
    display,                \* self.display: was main given --display
    pc,                     \* position of the main thread
    turn,                   \* number of calls of assist() so far
    attempt,                \* attempt number of the current call (tenacity)
    conversation_state,     \* self.conversation_state
    is_new_conversation,    \* self.is_new_conversation
    conversation_stream,    \* the audio channel
    continue_conversation,  \* local of assist()
    device_actions_futures, \* local of assist(): handles of this attempt
    executor,               \* state of every future ever submitted
    pcGen,                  \* position of the request generator
    requests,               \* requests yielded by the generator, this attempt
    error,                  \* exception raised by the current attempt
    result,                 \* what the call of assist() gave to its caller
    lastMic,                \* log: the last microphone mode other than
                            \*      UNSPECIFIED received in this attempt
    overridden,             \* log: did a response of this attempt replace
                            \*      the mode an earlier one had set
    audioIn,                \* log: number of responses of this attempt that
                            \*      carried audio
    written,                \* log: buffers handed to write(), this attempt
    config,                 \* log: the AssistConfig built in this attempt,
                            \*      as a sequence of length at most one
    dispatched,             \* log: futures submitted in this attempt
    nResponses,             \* log: number of responses processed so far
    lastToken,              \* log: last non-empty token processed
    ignored,                \* log: how many responses of IgnoredStream
                            \*      this attempt has received, when they are
                            \*      all it has received; -1 otherwise
    scenario,               \* log: how many responses of ScenarioStream
                            \*      this attempt has received, when they are
                            \*      all it has received; -1 otherwise
    configured,             \* log: has a config been built in this session
    lateAudio               \* log: number of audio requests of this attempt
                            \*      yielded while recording was off

vars == << mode, display, pc, turn, attempt, conversation_state,
           is_new_conversation, conversation_stream, continue_conversation,
           device_actions_futures, executor, pcGen, requests, error, result,
           lastMic, overridden, audioIn, written, config, dispatched,
           nResponses, lastToken, ignored, scenario, configured,
           lateAudio >>

(***************************************************************************)
(* The audio channel (audio_helpers.ConversationStream).                   *)
(***************************************************************************)
start_recording(cs) == [cs EXCEPT !.recording = TRUE]

stop_recording(cs) == [cs EXCEPT !.recording = FALSE]

start_playback(cs) == [cs EXCEPT !.playing = TRUE]

stop_playback(cs) == [cs EXCEPT !.playing = FALSE]

close(cs) == [cs EXCEPT !.closed = @ + 1]

(***************************************************************************)
(* The device action handler (device_helpers.DeviceRequestHandler): the    *)
(* number of futures it submits for a decoded device request.  A command   *)
(* without a registered handler is ignored.                                *)
(***************************************************************************)
\* variant: the handler submits a future for every decoded request
device_handler_any(device_request) == 1

device_handler(device_request) ==
    IF device_request = RegisteredRequest THEN 1 ELSE 0

\* json.loads: does the payload decode
JsonLoads(s) == s # MalformedJson

(***************************************************************************)
(* Retry policy of assist(): retry_if_exception(is_grpc_error_unavailable) *)
(* and stop_after_attempt(3).                                              *)
(***************************************************************************)
\* variant: every gRPC error counts as retryable
is_grpc_error(e) == e.rpc

is_grpc_error_unavailable(e) == e.rpc /\ e.code = "UNAVAILABLE"

stop_after_attempt(n) == n >= StopAfterAttempt

(***************************************************************************)
(* AssistConfig built by gen_assist_requests.  A protobuf bytes field set  *)
(* from None is left empty.                                                *)
(***************************************************************************)
BytesField(v) == IF v = None THEN "" ELSE v

\* variant: the volume is the one the session started with
AssistConfigInitialVolume ==
    [ sample_rate_hertz |-> conversation_stream.sample_rate,
      volume_percentage |-> DefaultVolume,
      language_code |-> "en-US",
      conversation_state |-> BytesField(conversation_state),
      is_new_conversation |-> is_new_conversation,
      device_id |-> "device-id",
      device_model_id |-> "device-model-id",
      screen_mode |-> IF display THEN PLAYING ELSE "" ]

AssistConfig ==
    [ sample_rate_hertz |-> conversation_stream.sample_rate,
      volume_percentage |-> conversation_stream.volume_percentage,
      language_code |-> "en-US",
      conversation_state |-> BytesField(conversation_state),
      is_new_conversation |-> is_new_conversation,
      device_id |-> "device-id",
      device_model_id |-> "device-model-id",
      screen_mode |-> IF display THEN PLAYING ELSE "" ]

Init ==
    /\ mode \in {"once", "hotword"}
    /\ display \in BOOLEAN
    /\ pc = "ready"
    /\ turn = 0
    /\ attempt = 0
    /\ conversation_state = None
    /\ is_new_conversation = TRUE
    /\ conversation_stream = [ recording |-> FALSE, playing |-> FALSE,
                               volume_percentage |-> DefaultVolume,
                               sample_rate |-> 16000, closed |-> 0 ]
    /\ continue_conversation = FALSE
    /\ device_actions_futures = << >>
    /\ executor = << >>
    /\ pcGen = "none"
    /\ requests = << >>
    /\ error = NoError
    /\ result = [kind |-> "none"]
    /\ lastMic = MICROPHONE_MODE_UNSPECIFIED
    /\ overridden = FALSE
    /\ audioIn = 0
    /\ written = << >>
    /\ config = << >>
    /\ dispatched = {}
    /\ nResponses = 0
    /\ lastToken = ""
    /\ ignored = 0
    /\ scenario = 0
    /\ configured = FALSE
    /\ lateAudio = 0

(***************************************************************************)
(* Start of one attempt of assist(): lines 150-153, and the call of        *)
(* self.assistant.Assist with a fresh request generator.                   *)
(***************************************************************************)
\* variant: recording is started by the first attempt only
BeginAttemptRecordsOnce(n) ==
    /\ attempt' = n
    /\ continue_conversation' = FALSE
    /\ device_actions_futures' = << >>
    /\ conversation_stream' = IF n = 1
                                THEN start_recording(conversation_stream)
                                ELSE conversation_stream
    /\ pcGen' = "config"
    /\ requests' = << >>
    /\ error' = NoError
    /\ lastMic' = MICROPHONE_MODE_UNSPECIFIED
    /\ overridden' = FALSE
    /\ audioIn' = 0
    /\ written' = << >>
    /\ config' = << >>
    /\ dispatched' = {}
    /\ ignored' = 0
    /\ scenario' = 0
    /\ lateAudio' = 0
    /\ pc' = "loop"

\* variant: the locals of assist() survive a retry
BeginAttemptKeepsLocals(n) ==
    /\ attempt' = n
    /\ continue_conversation' = IF n = 1 THEN FALSE
                                ELSE continue_conversation
    /\ device_actions_futures' = IF n = 1 THEN << >>
                                 ELSE device_actions_futures
    /\ conversation_stream' = start_recording(conversation_stream)
    /\ pcGen' = "config"
    /\ requests' = << >>
    /\ error' = NoError
    /\ lastMic' = MICROPHONE_MODE_UNSPECIFIED
    /\ overridden' = FALSE
    /\ audioIn' = 0
    /\ written' = << >>
    /\ config' = << >>
    /\ dispatched' = {}
    /\ ignored' = 0
    /\ scenario' = 0
    /\ lateAudio' = 0
    /\ pc' = "loop"

BeginAttempt(n) ==
    /\ attempt' = n
    /\ continue_conversation' = FALSE
    /\ device_actions_futures' = << >>
    /\ conversation_stream' = start_recording(conversation_stream)
    /\ pcGen' = "config"
    /\ requests' = << >>
    /\ error' = NoError
    /\ lastMic' = MICROPHONE_MODE_UNSPECIFIED
    /\ overridden' = FALSE
    /\ audioIn' = 0
    /\ written' = << >>
    /\ config' = << >>
    /\ dispatched' = {}
    /\ ignored' = 0
    /\ scenario' = 0
    /\ lateAudio' = 0
    /\ pc' = "loop"

\* main calls assistant.assist(): once with file arguments or --once, on
\* each detected hotword otherwise.
StartTurn ==
    /\ pc = "ready"
    /\ turn < MaxTurns
    /\ mode = "once" => turn = 0
    /\ turn' = turn + 1
    /\ result' = [kind |-> "none"]
    /\ BeginAttempt(1)
    /\ UNCHANGED << mode, display, conversation_state, is_new_conversation,
                    executor, nResponses, lastToken, configured >>

(***************************************************************************)
(* gen_assist_requests, pulled by the transport while the call is open.    *)
(***************************************************************************)
\* variant: the flag is not cleared after the config is built
GenConfigKeepsFlag ==
    /\ pc = "loop"
    /\ pcGen = "config"
    /\ config' = << AssistConfig >>
    /\ configured' = TRUE
    /\ requests' = Append(requests, "config")
    /\ pcGen' = "audio"
    /\ UNCHANGED << mode, display, pc, turn, attempt, conversation_state,
                    is_new_conversation, conversation_stream,
                    continue_conversation, device_actions_futures, executor,
                    error, result, lastMic, overridden, audioIn, written,
                    dispatched, nResponses, lastToken, ignored, scenario,
                    lateAudio >>

GenConfig ==
    /\ pc = "loop"
    /\ pcGen = "config"
    /\ config' = << AssistConfig >>
    /\ configured' = TRUE
    /\ is_new_conversation' = FALSE
    /\ requests' = Append(requests, "config")
    /\ pcGen' = "audio"
    /\ UNCHANGED << mode, display, pc, turn, attempt, conversation_state,
                    conversation_stream, continue_conversation,
                    device_actions_futures, executor, error, result, lastMic,
                    overridden, audioIn, written, dispatched, nResponses,
                    lastToken, ignored, scenario, lateAudio >>

\* variant: the generator goes on reading after recording has stopped
GenAudioDrains ==
    /\ pc = "loop"
    /\ pcGen = "audio"
    /\ Len(requests) <= MaxChunks
    /\ pcGen' = "yield"
    /\ UNCHANGED << mode, display, pc, turn, attempt, conversation_state,
                    is_new_conversation, conversation_stream,
                    continue_conversation, device_actions_futures, executor,
                    requests, error, result, lastMic, overridden, audioIn,
                    written, config, dispatched, nResponses, lastToken,
                    ignored, scenario, configured, lateAudio >>

\* line 243, for data in self.conversation_stream: the generator thread
\* obtains the next chunk of the stream, which yields chunks while it is
\* recording.
GenAudio ==
    /\ pc = "loop"
    /\ pcGen = "audio"
    /\ conversation_stream.recording
    /\ Len(requests) <= MaxChunks
    /\ pcGen' = "yield"
    /\ UNCHANGED << mode, display, pc, turn, attempt, conversation_state,
                    is_new_conversation, conversation_stream,
                    continue_conversation, device_actions_futures, executor,
                    requests, error, result, lastMic, overridden, audioIn,
                    written, config, dispatched, nResponses, lastToken,
                    ignored, scenario, configured, lateAudio >>

\* variant: every request carries the config again
GenYieldWithConfig ==
    /\ pcGen = "yield"
    /\ requests' = Append(requests, "config")
    /\ pcGen' = "audio"
    /\ lateAudio' = IF conversation_stream.recording
                      THEN lateAudio ELSE lateAudio + 1
    /\ UNCHANGED << mode, display, pc, turn, attempt, conversation_state,
                    is_new_conversation, conversation_stream,
                    continue_conversation, device_actions_futures, executor,
                    error, result, lastMic, overridden, audioIn, written,
                    config, dispatched, nResponses, lastToken, ignored,
                    scenario, configured >>

\* line 245: the chunk obtained is yielded as an audio request.  The
\* generator runs in the transport's thread: since the chunk was obtained
\* the main thread may have processed responses, left the response loop or
\* returned from assist(), and the yield takes place all the same.
GenYield ==
    /\ pcGen = "yield"
    /\ requests' = Append(requests, "audio_in")
    /\ pcGen' = "audio"
    /\ lateAudio' = IF conversation_stream.recording
                      THEN lateAudio ELSE lateAudio + 1
    /\ UNCHANGED << mode, display, pc, turn, attempt, conversation_state,
                    is_new_conversation, conversation_stream,
                    continue_conversation, device_actions_futures, executor,
                    error, result, lastMic, overridden, audioIn, written,
                    config, dispatched, nResponses, lastToken, ignored,
                    scenario, configured >>

\* line 243: the iteration over the stream ends because recording has been
\* stopped.
GenStop ==
    /\ pc = "loop"
    /\ pcGen = "audio"
    /\ ~conversation_stream.recording
    /\ pcGen' = "done"
    /\ UNCHANGED << mode, display, pc, turn, attempt, conversation_state,
                    is_new_conversation, conversation_stream,
                    continue_conversation, device_actions_futures, executor,
                    requests, error, result, lastMic, overridden, audioIn,
                    written, config, dispatched, nResponses, lastToken,
                    ignored, scenario, configured, lateAudio >>

\* line 243: the iteration over the stream ends because the input is
\* exhausted, while recording is still on (an input file read to its end).
GenExhausted ==
    /\ pc = "loop"
    /\ pcGen = "audio"
    /\ mode = "once"
    /\ conversation_stream.recording
    /\ pcGen' = "done"
    /\ UNCHANGED << mode, display, pc, turn, attempt, conversation_state,
                    is_new_conversation, conversation_stream,
                    continue_conversation, device_actions_futures, executor,
                    requests, error, result, lastMic, overridden, audioIn,
                    written, config, dispatched, nResponses, lastToken,
                    ignored, scenario, configured, lateAudio >>

(***************************************************************************)
(* The rules applied to one response, lines 167-203 of assist().  The      *)
(* display of screen_out data (lines 201-203) changes no state of the      *)
(* session and is left out.                                                *)
(***************************************************************************)
\* variant: the end of the utterance switches recording off and on
OnEventTypeToggle(cs, resp) ==
    IF resp.event_type = END_OF_UTTERANCE
      THEN [cs EXCEPT !.recording = ~@] ELSE cs

\* variant: the end of the utterance is not acted upon
OnEventTypeIgnored(cs, resp) == cs

\* lines 167-170
OnEventType(cs, resp) ==
    IF resp.event_type = END_OF_UTTERANCE THEN stop_recording(cs) ELSE cs

\* variant: playback is started by every response
OnAudioOutAlways(cs, resp) ==
    IF ~cs.playing THEN start_playback(stop_recording(cs)) ELSE cs

\* variant: the buffer is written only by the response that starts playback
OnAudioWriteOnStart(w, cs, resp) ==
    IF resp.audio_data # "" /\ ~cs.playing
      THEN Append(w, resp.audio_data) ELSE w

\* lines 175-179
OnAudioOut(cs, resp) ==
    IF resp.audio_data # ""
      THEN IF ~cs.playing THEN start_playback(stop_recording(cs)) ELSE cs
      ELSE cs

\* line 180: the buffers handed to conversation_stream.write, w being those
\* written before and cs the channel the response finds
OnAudioWrite(w, cs, resp) ==
    IF resp.audio_data # "" THEN Append(w, resp.audio_data) ELSE w

\* variant: the stored token is overwritten by every response
OnConversationStateAlways(state, resp) == resp.conversation_state

\* lines 181-184
OnConversationState(state, resp) ==
    IF resp.conversation_state # "" THEN resp.conversation_state ELSE state

\* variant: the volume of every response is applied, zero too
OnVolumeAlways(cs, resp) ==
    [cs EXCEPT !.volume_percentage = resp.volume_percentage]

\* lines 185-188
OnVolume(cs, resp) ==
    IF resp.volume_percentage # 0
      THEN [cs EXCEPT !.volume_percentage = resp.volume_percentage]
      ELSE cs

\* lines 167-188: what the rules of one response, applied in the order of
\* the code, make of the channel
OnResponseChannel(cs, resp) ==
    OnVolume(OnAudioOut(OnEventType(cs, resp), resp), resp)

\* variant: a follow-on request is never withdrawn
OnMicrophoneModeSticky(cont, resp) ==
    IF resp.microphone_mode = DIALOG_FOLLOW_ON THEN TRUE ELSE cont

\* lines 189-193
OnMicrophoneMode(cont, resp) ==
    IF resp.microphone_mode = DIALOG_FOLLOW_ON THEN TRUE
    ELSE IF resp.microphone_mode = CLOSE_MICROPHONE THEN FALSE
    ELSE cont

\* does processing the response raise (json.loads on line 195)
Raises(resp) ==
    resp.device_request_json # "" /\ ~JsonLoads(resp.device_request_json)

\* lines 194-200: the number of futures the handler submits
Submitted(resp) ==
    IF resp.device_request_json # "" /\ ~Raises(resp)
      THEN device_handler(resp.device_request_json)
      ELSE 0

(***************************************************************************)
(* One iteration of the response loop.  The service answers requests, so   *)
(* responses arrive once the config request has been produced.  A session  *)
(* receives at most MaxMsgs responses over all its attempts; the           *)
(* end-to-end scenario, and a stream that follows it and then repeats one  *)
(* of its responses, is received up to the scenario's length.              *)
(***************************************************************************)
Receive(resp) ==
    /\ pc = "loop"
    /\ pcGen # "config"
    /\ \/ nResponses < MaxMsgs
       \/ /\ scenario >= 0
          /\ nResponses < Len(ScenarioStream)
          /\ \E i \in 1..Len(ScenarioStream) : resp = ScenarioStream[i]
    /\ Len(executor) + Submitted(resp) <= MaxHandles
    /\ nResponses' = nResponses + 1
    /\ conversation_stream' = OnResponseChannel(conversation_stream, resp)
    /\ written' =
           OnAudioWrite(written, OnEventType(conversation_stream, resp), resp)
    /\ conversation_state' = OnConversationState(conversation_state, resp)
    /\ continue_conversation' = OnMicrophoneMode(continue_conversation, resp)
    /\ lastMic' = IF resp.microphone_mode # MICROPHONE_MODE_UNSPECIFIED
                    THEN resp.microphone_mode ELSE lastMic
    /\ overridden' = \/ overridden
                      \/ /\ lastMic # MICROPHONE_MODE_UNSPECIFIED
                         /\ resp.microphone_mode # MICROPHONE_MODE_UNSPECIFIED
                         /\ resp.microphone_mode # lastMic
    /\ audioIn' = IF resp.audio_data # "" THEN audioIn + 1 ELSE audioIn
    /\ lastToken' = IF resp.conversation_state # ""
                      THEN resp.conversation_state ELSE lastToken
    /\ ignored' = IF /\ ignored \in 0..(Len(IgnoredStream) - 1)
                     /\ resp = IgnoredStream[ignored + 1]
                    THEN ignored + 1 ELSE -1
    /\ scenario' = IF /\ scenario \in 0..(Len(ScenarioStream) - 1)
                      /\ resp = ScenarioStream[scenario + 1]
                     THEN scenario + 1 ELSE -1
    /\ IF Raises(resp)
         THEN /\ pc' = "failed"
              /\ error' = JsonValueError
              /\ UNCHANGED << executor, device_actions_futures, dispatched >>
         ELSE /\ pc' = pc
              /\ error' = error
              /\ executor' = executor \o
                     [i \in 1..Submitted(resp) |-> "pending"]
              /\ device_actions_futures' = device_actions_futures \o
                     [i \in 1..Submitted(resp) |-> Len(executor) + i]
              /\ dispatched' = dispatched \cup
                     { Len(executor) + i : i \in 1..Submitted(resp) }
    /\ UNCHANGED << mode, display, turn, attempt, is_new_conversation, pcGen,
                    requests, result, config, configured, lateAudio >>

\* The response stream ends normally: the for loop of line 164 is left.
StreamEnd ==
    /\ pc = "loop"
    /\ pcGen # "config"
    /\ pc' = "wait"
    /\ UNCHANGED << mode, display, turn, attempt, conversation_state,
                    is_new_conversation, conversation_stream,
                    continue_conversation, device_actions_futures, executor,
                    pcGen, requests, error, result, lastMic, overridden,
                    audioIn, written, config, dispatched, nResponses,
                    lastToken, ignored, scenario, configured, lateAudio >>

\* The call fails: the response iterator raises a grpc.RpcError.
StreamFail(e) ==
    /\ pc = "loop"
    /\ pc' = "failed"
    /\ error' = e
    /\ UNCHANGED << mode, display, turn, attempt, conversation_state,
                    is_new_conversation, conversation_stream,
                    continue_conversation, device_actions_futures, executor,
                    pcGen, requests, result, lastMic, overridden, audioIn,
                    written, config, dispatched, nResponses, lastToken,
                    ignored, scenario, configured, lateAudio >>

(***************************************************************************)
(* The retry decorator of line 143, deciding on a failed attempt.          *)
(***************************************************************************)
ShouldRetry(e, n) == is_grpc_error_unavailable(e) /\ ~stop_after_attempt(n)

\* the exception the decorated call raises when it does not retry
Raised(e, n) ==
    IF is_grpc_error_unavailable(e) /\ stop_after_attempt(n) /\ ~Reraise
      THEN RetryError ELSE e

\* variant: a retried attempt opens a new conversation
RetryNewConversation ==
    /\ pc = "failed"
    /\ ShouldRetry(error, attempt)
    /\ BeginAttempt(attempt + 1)
    /\ is_new_conversation' = TRUE
    /\ UNCHANGED << mode, display, turn, conversation_state, executor, result,
                    nResponses, lastToken, configured >>

Retry ==
    /\ pc = "failed"
    /\ ShouldRetry(error, attempt)
    /\ BeginAttempt(attempt + 1)
    /\ UNCHANGED << mode, display, turn, conversation_state,
                    is_new_conversation, executor, result, nResponses,
                    lastToken, configured >>

Propagate ==
    /\ pc = "failed"
    /\ ~ShouldRetry(error, attempt)
    /\ result' = [kind |-> "raised", error |-> Raised(error, attempt)]
    /\ pc' = "raise"
    /\ UNCHANGED << mode, display, turn, attempt, conversation_state,
                    is_new_conversation, conversation_stream,
                    continue_conversation, device_actions_futures, executor,
                    pcGen, requests, error, lastMic, overridden, audioIn,
                    written, config, dispatched, nResponses, lastToken,
                    ignored, scenario, configured, lateAudio >>

(***************************************************************************)
(* End of a successful attempt, lines 205-211.                             *)
(***************************************************************************)
\* variant: the wait returns at once
AllDoneNoWait(fs) == TRUE

\* variant: the wait is over only when every future has succeeded
AllDoneSucceeded(fs) == \A i \in 1..Len(fs) : executor[fs[i]] = "done"

AllDone(fs) == \A i \in 1..Len(fs) : executor[fs[i]] # "pending"

\* variant: the exception of a failed future is raised by the wait, as
\* Future.result() would raise it
WaitFuturesResult ==
    /\ pc = "wait"
    /\ AllDone(device_actions_futures)
    /\ IF \E i \in 1..Len(device_actions_futures) :
              executor[device_actions_futures[i]] = "failed"
         THEN pc' = "failed" /\ error' = HandlerError
         ELSE pc' = "finish" /\ error' = error
    /\ UNCHANGED << mode, display, turn, attempt, conversation_state,
                    is_new_conversation, conversation_stream,
                    continue_conversation, device_actions_futures, executor,
                    pcGen, requests, result, lastMic, overridden, audioIn,
                    written, config, dispatched, nResponses, lastToken,
                    ignored, scenario, configured, lateAudio >>

\* concurrent.futures.wait(device_actions_futures)
WaitFutures ==
    /\ pc = "wait"
    /\ AllDone(device_actions_futures)
    /\ pc' = "finish"
    /\ UNCHANGED << mode, display, turn, attempt, conversation_state,
                    is_new_conversation, conversation_stream,
                    continue_conversation, device_actions_futures, executor,
                    pcGen, requests, error, result, lastMic, overridden,
                    audioIn, written, config, dispatched, nResponses,
                    lastToken, ignored, scenario, configured, lateAudio >>

\* variant: playback is stopped only when this attempt wrote audio
StopPlaybackIfWritten ==
    /\ pc = "finish"
    /\ conversation_stream' = IF written # << >>
                                THEN stop_playback(conversation_stream)
                                ELSE conversation_stream
    /\ pc' = "return"
    /\ UNCHANGED << mode, display, turn, attempt, conversation_state,
                    is_new_conversation, continue_conversation,
                    device_actions_futures, executor, pcGen, requests, error,
                    result, lastMic, overridden, audioIn, written, config,
                    dispatched, nResponses, lastToken, ignored, scenario,
                    configured, lateAudio >>

\* line 210
StopPlayback ==
    /\ pc = "finish"
    /\ conversation_stream' = stop_playback(conversation_stream)
    /\ pc' = "return"
    /\ UNCHANGED << mode, display, turn, attempt, conversation_state,
                    is_new_conversation, continue_conversation,
                    device_actions_futures, executor, pcGen, requests, error,
                    result, lastMic, overridden, audioIn, written, config,
                    dispatched, nResponses, lastToken, ignored, scenario,
                    configured, lateAudio >>

\* variant: the decorated call drops the value of the attempt
ReturnNothing ==
    /\ pc = "return"
    /\ result' = [kind |-> "returned", value |-> FALSE]
    /\ pc' = IF mode = "hotword" THEN "ready" ELSE "leave"
    /\ UNCHANGED << mode, display, turn, attempt, conversation_state,
                    is_new_conversation, conversation_stream,
                    continue_conversation, device_actions_futures, executor,
                    pcGen, requests, error, lastMic, overridden, audioIn,
                    written, config, dispatched, nResponses, lastToken,
                    ignored, scenario, configured, lateAudio >>

\* return continue_conversation; the retry decorator hands the value on.
\* In hotword mode the detector goes on listening, otherwise main leaves the
\* with block.
Return ==
    /\ pc = "return"
    /\ result' = [kind |-> "returned", value |-> continue_conversation]
    /\ pc' = IF mode = "hotword" THEN "ready" ELSE "leave"
    /\ UNCHANGED << mode, display, turn, attempt, conversation_state,
                    is_new_conversation, conversation_stream,
                    continue_conversation, device_actions_futures, executor,
                    pcGen, requests, error, lastMic, overridden, audioIn,
                    written, config, dispatched, nResponses, lastToken,
                    ignored, scenario, configured, lateAudio >>

\* A submitted device action finishes, normally or with an exception.
CompleteFuture(i, outcome) ==
    /\ i \in 1..Len(executor)
    /\ executor[i] = "pending"
    /\ executor' = [executor EXCEPT ![i] = outcome]
    /\ UNCHANGED << mode, display, pc, turn, attempt, conversation_state,
                    is_new_conversation, conversation_stream,
                    continue_conversation, device_actions_futures, pcGen,
                    requests, error, result, lastMic, overridden, audioIn,
                    written, config, dispatched, nResponses, lastToken,
                    ignored, scenario, configured, lateAudio >>

(***************************************************************************)
(* SampleAssistant.__exit__, lines 131-134: e is the exception leaving the *)
(* with block, if any.                                                     *)
(***************************************************************************)
\* variant: the stream is closed on every exit
ExitStreamAlways(cs, e) == close(cs)

ExitStream(cs, e) == IF e THEN cs ELSE close(cs)

SessionExit ==
    /\ pc \in {"leave", "raise"}
    /\ conversation_stream' = ExitStream(conversation_stream, pc = "raise")
    /\ pc' = "exited"
    /\ UNCHANGED << mode, display, turn, attempt, conversation_state,
                    is_new_conversation, continue_conversation,
                    device_actions_futures, executor, pcGen, requests, error,
                    result, lastMic, overridden, audioIn, written, config,
                    dispatched, nResponses, lastToken, ignored, scenario,
                    configured, lateAudio >>

Next ==
    \/ StartTurn
    \/ GenConfig
    \/ GenAudio
    \/ GenYield
    \/ GenStop
    \/ GenExhausted
    \/ \E m \in Responses : Receive(Response(m, audioIn))
    \/ StreamEnd
    \/ \E e \in TransportErrors : StreamFail(e)
    \/ Retry
    \/ Propagate
    \/ WaitFutures
    \/ StopPlayback
    \/ Return
    \/ \E i \in 1..MaxHandles, o \in {"done", "failed"} : CompleteFuture(i, o)
    \/ SessionExit

Spec == Init /\ [][Next]_vars

(***************************************************************************)
(* The session started with the default of --display (lines 281-282): no   *)
(* screen output is asked for.  self.display is read on lines 201 and 236  *)
(* only, to show the screen data of a response, which changes no state of  *)
(* the session, and to set the screen mode of the config.                  *)
(***************************************************************************)
InitDefault == Init /\ ~display

SpecDefault == InitDefault /\ [][Next]_vars

(***************************************************************************)
(* The session of one turn: main called with file arguments or --once,     *)
(* with the default of --display.                                          *)
(***************************************************************************)
InitOnce == InitDefault /\ mode = "once"

SpecOnce == InitOnce /\ [][Next]_vars

(***************************************************************************)
(* The session with the responses that bear on the progress of a turn:     *)
(* those that stop recording, start playback, submit a device action or    *)
(* fail to decode.  The token, the volume and the microphone mode of a     *)
(* response change no guard of any step.                                   *)
(***************************************************************************)
ProgressResponses ==
    { m \in Responses : /\ m.conversation_state = ""
                         /\ m.volume_percentage = 0
                         /\ m.microphone_mode = MICROPHONE_MODE_UNSPECIFIED }

NextProgress ==
    \/ StartTurn
    \/ GenConfig
    \/ GenAudio
    \/ GenYield
    \/ GenStop
    \/ GenExhausted
    \/ \E m \in ProgressResponses : Receive(Response(m, audioIn))
    \/ StreamEnd
    \/ \E e \in TransportErrors : StreamFail(e)
    \/ Retry
    \/ Propagate
    \/ WaitFutures
    \/ StopPlayback
    \/ Return
    \/ \E i \in 1..MaxHandles, o \in {"done", "failed"} : CompleteFuture(i, o)
    \/ SessionExit

\* The transport keeps pulling the request generator while the call is open.
SpecProducer ==
    /\ InitDefault
    /\ [][NextProgress]_vars
    /\ WF_vars(GenConfig)
    /\ WF_vars(GenAudio)
    /\ WF_vars(GenYield)
    /\ WF_vars(GenStop)

\* The main thread runs, the response stream of every attempt ends or
\* fails, and every submitted device action completes.
SpecTurn ==
    /\ InitDefault
    /\ [][NextProgress]_vars
    /\ WF_vars(StreamEnd \/ \E e \in TransportErrors : StreamFail(e))
    /\ WF_vars(Retry)
    /\ WF_vars(Propagate)
    /\ WF_vars(\E i \in 1..MaxHandles, o \in {"done", "failed"} :
                   CompleteFuture(i, o))
    /\ WF_vars(WaitFutures)
    /\ WF_vars(StopPlayback)
    /\ WF_vars(Return)
    /\ WF_vars(SessionExit)

(***************************************************************************)
(*                              Properties                                 *)
(***************************************************************************)

\* C1: in every attempt the requests produced so far are empty, or start
\* with the one config request and continue with audio requests only.
C1_ConfigFirst ==
    \A i \in 1..Len(requests) :
        (i = 1 => requests[i] = "config") /\ (i > 1 => requests[i] = "audio_in")

C1_Witness ==
    Len(requests) >= 2 /\ requests[1] = "config" /\ requests[2] = "audio_in"

\* C2 as stated: after three attempts that each failed with UNAVAILABLE the
\* call fails with a distinct exhausted-retries error, and there are never
\* more than three attempts.
C2_Original ==
    /\ attempt <= 3
    /\ (result.kind = "raised" /\ attempt = 3 /\ error = RpcUnavailable)
          => result.error = RetryError

\* C3: a new attempt is started only after a failure with the UNAVAILABLE
\* gRPC status; after any other failure the attempt number stays and the
\* call raises that very error.
C3_OnlyTransientRetried ==
    [][ /\ (pc = "failed" /\ error # RpcUnavailable)
            => /\ attempt' = attempt
               /\ pc' \in {"failed", "raise"}
               /\ pc' = "raise" => result' = [kind |-> "raised",
                                              error |-> error]
        /\ (turn' = turn /\ attempt' # attempt)
            => (pc = "failed" /\ error = RpcUnavailable) ]_vars

C3_Witness ==
    pc = "raise" /\ attempt = 2 /\ error = JsonValueError
                 /\ result = [kind |-> "raised", error |-> JsonValueError]

\* C4: when an attempt returns, the call returns that attempt's value of
\* continue_conversation unchanged, and no further attempt of the turn is
\* started.
C4_SuccessReturned ==
    [][ /\ (pc = "return" /\ pc' # "return")
            => /\ result' = [kind |-> "returned",
                             value |-> continue_conversation]
               /\ attempt' = attempt
        /\ (result.kind = "returned" /\ turn' = turn)
            => (attempt' = attempt /\ result' = result) ]_vars

C4_Witness ==
    result = [kind |-> "returned", value |-> TRUE] /\ attempt = 2

\* C5: continue_conversation is TRUE exactly when the last response of the
\* attempt that carried DIALOG_FOLLOW_ON or CLOSE_MICROPHONE carried
\* DIALOG_FOLLOW_ON (FALSE when none carried either), and that is the value
\* the turn returns.
C5_LastWriterWins ==
    /\ continue_conversation = (lastMic = DIALOG_FOLLOW_ON)
    /\ result.kind = "returned" => result.value = (lastMic = DIALOG_FOLLOW_ON)

C5_Witness ==
    /\ result = [kind |-> "returned", value |-> TRUE]
    /\ overridden

\* C6: playback is stopped, and the turn returns, only when every future
\* submitted for the device actions of the attempt's responses has
\* completed; the return comes after the stop of playback.
C6_WaitBeforeStop ==
    /\ (pc \in {"finish", "return"} \/ result.kind = "returned")
          => \A h \in dispatched : executor[h] # "pending"
    /\ (pc = "return" \/ result.kind = "returned")
          => ~conversation_stream.playing

C6_Witness ==
    result.kind = "returned" /\ dispatched # {} /\ written # << >>

\* C7 as stated: no call of assist() raises the error of decoding a
\* malformed device request.
C7_MalformedSkipped ==
    ~(result.kind = "raised" /\ result.error = JsonValueError)

\* C8 as stated: once the session has been left the stream has been closed
\* exactly once, after a success and after a failure alike.
C8_Original ==
    /\ conversation_stream.closed <= 1
    /\ pc = "exited" => conversation_stream.closed = 1

\* C8 amended: leaving the session closes the stream exactly once when no
\* error leaves the with block, and does not close it when a turn's error
\* propagates out of the session; the stream is never closed twice.
C8_Amended ==
    /\ conversation_stream.closed <= 1
    /\ pc = "exited" =>
          conversation_stream.closed = IF result.kind = "raised" THEN 0 ELSE 1
    /\ pc # "exited" => conversation_stream.closed = 0

C8_Witness ==
    pc = "exited" /\ result.kind = "raised" /\ conversation_stream.closed = 0

\* C9: every config carries exactly the last non-empty token received
\* before it was built (empty when none was received yet), so the first
\* config of a turn carries the last token of the earlier turns; the stored
\* token is always that last token and building the config leaves it alone.
C9_TokenForwarded ==
    [][ /\ (lastToken' = "" /\ conversation_state' = None)
             \/ (lastToken' # "" /\ conversation_state' = lastToken')
        /\ (pcGen = "config" /\ pcGen' = "audio")
            => /\ config'[1].conversation_state = lastToken
               /\ conversation_state' = conversation_state ]_vars

C9_Witness ==
    /\ turn = 2
    /\ Len(config) = 1
    /\ config[1].conversation_state = "t2"
    /\ result.kind = "none"

\* C10 as stated: every config of the first turn carries
\* is_new_conversation = TRUE, the config of every later turn carries FALSE,
\* and the flag, once FALSE, is never TRUE again.
C10_Original ==
    [][ /\ (pcGen = "config" /\ pcGen' = "audio")
            => /\ turn = 1 => config'[1].is_new_conversation
               /\ turn >= 2 => ~config'[1].is_new_conversation
        /\ ~is_new_conversation => ~is_new_conversation' ]_vars

\* C10 amended: a config carries is_new_conversation = TRUE just when it is
\* the first config built in the session; that is the config of the first
\* attempt of the first turn when that attempt builds one, and never the
\* config of a later turn; and the flag, once FALSE, is never TRUE again.
C10_Amended ==
    [][ /\ (pcGen = "config" /\ pcGen' = "audio")
            => /\ config'[1].is_new_conversation <=> ~configured
               /\ (turn = 1 /\ attempt = 1)
                     => config'[1].is_new_conversation
               /\ turn >= 2 => ~config'[1].is_new_conversation
        /\ ~is_new_conversation => ~is_new_conversation' ]_vars

C10_Witness ==
    /\ turn = 1
    /\ attempt = 3
    /\ configured
    /\ Len(config) = 1
    /\ ~config[1].is_new_conversation
    /\ ~is_new_conversation

\* C11: a response without audio bytes neither starts playback nor writes
\* anything to the output: playback is started only by the processing of a
\* response whose audio_out carries bytes.
C11_EmptyAudioNoPlayback ==
    [][ /\ (nResponses' = nResponses + 1 /\ audioIn' = audioIn)
            => /\ conversation_stream'.playing = conversation_stream.playing
               /\ written' = written
        /\ (~conversation_stream.playing /\ conversation_stream'.playing)
            => (nResponses' = nResponses + 1 /\ audioIn' = audioIn + 1) ]_vars

C11_Witness ==
    /\ pc = "wait"
    /\ nResponses = 2
    /\ audioIn = 0
    /\ turn = 1
    /\ attempt = 1
    /\ ~conversation_stream.playing
    /\ written = << >>

\* C12: the buffers written in an attempt are exactly the audio payloads of
\* the responses received in it, in the order of their arrival, and from the
\* first write to the end of the response loop the channel is playing.
C12_WritesInOrder ==
    /\ written = [i \in 1..audioIn |-> Chunks[i]]
    /\ (pc \in {"loop", "failed"} /\ written # << >>)
          => conversation_stream.playing

C12_Witness ==
    pc = "loop" /\ written = << "AB", "CD" >> /\ conversation_stream.playing

\* C13: a device request whose command has no registered handler, processed
\* in any state, submits no future, raises nothing and leaves
\* continue_conversation as it was; after the request to keep the microphone
\* open, its processing keeps no handle, changes neither the futures nor
\* continue_conversation and raises nothing: the response loop goes on.
C13_UnregisteredIgnored ==
    /\ [](/\ Submitted(IgnoredRequest) = 0
          /\ ~Raises(IgnoredRequest)
          /\ OnMicrophoneMode(continue_conversation, IgnoredRequest)
                 = continue_conversation)
    /\ [][ (ignored = 1 /\ ignored' = 2)
             => /\ executor' = executor
                /\ device_actions_futures' = device_actions_futures
                /\ dispatched' = dispatched
                /\ continue_conversation /\ continue_conversation'
                /\ pc' = pc
                /\ error' = error ]_vars

C13_Witness ==
    /\ ignored = 2
    /\ result = [kind |-> "returned", value |-> TRUE]
    /\ executor = << >>

\* C14: the failure of a submitted device action never becomes the error of
\* an attempt or of the call, and a wait whose futures have all completed,
\* failed ones included, can finish.
C14_HandlerErrorContained ==
    /\ error # HandlerError
    /\ result.kind = "raised" => result.error # HandlerError
    /\ (pc = "wait" /\ \A h \in dispatched : executor[h] # "pending")
          => ENABLED WaitFutures

C14_Witness ==
    /\ result.kind = "returned"
    /\ attempt = 1
    /\ ~conversation_stream.playing
    /\ \E h \in dispatched : executor[h] = "failed"

\* C15: in an attempt whose responses are those of ScenarioStream, recording
\* is stopped once the first has been processed, playback is on and "AB" is
\* all that was written once the second has been, continue_conversation is
\* FALSE once the third has been, and the turn returns FALSE with playback
\* stopped.
C15_Scenario ==
    /\ scenario >= 1 => ~conversation_stream.recording
    /\ (scenario >= 2 /\ pc \in {"loop", "wait", "finish"})
          => (conversation_stream.playing /\ written = << "AB" >>)
    /\ scenario = 3 => ~continue_conversation
    /\ (scenario = 3 /\ result.kind = "returned")
          => /\ result.value = FALSE
             /\ ~conversation_stream.playing
             /\ written = << "AB" >>

C15_Witness ==
    /\ scenario = 3
    /\ result = [kind |-> "returned", value |-> FALSE]
    /\ ~conversation_stream.playing
    /\ ~conversation_stream.recording
    /\ written = << "AB" >>

\* C16 as stated: after a turn has returned TRUE the caller neither waits
\* for a trigger (pc = "ready": the hotword detector is listening) nor
\* leaves the session, it starts the next turn at once.  That a turn after a
\* returned FALSE starts only on a trigger is how StartTurn is taken in the
\* hotword mode.
C16_ExitContract ==
    (result.kind = "returned" /\ result.value = TRUE)
        => pc \notin {"ready", "leave", "exited"}

\* C17 as stated: the channel is never recording and playing at once.
C17_OneMode ==
    ~(conversation_stream.recording /\ conversation_stream.playing)

\* C18 as stated: once a response carrying audio has been processed, in any
\* attempt, the channel is playing and not recording.
C18_BargeIn ==
    [][ (nResponses' = nResponses + 1 /\ audioIn' = audioIn + 1)
           => /\ conversation_stream'.playing
              /\ ~conversation_stream'.recording ]_vars

\* C19 as stated, in the two cases the state shows the token the turn began
\* with: when the call of assist() has raised, the stored token is the one
\* the first attempt's config carried if the call failed in its first
\* attempt, and is still None if the turn was the first of the session.
C19_TokenDiscardedOnAbort ==
    result.kind = "raised"
        => /\ turn = 1 => conversation_state = None
           /\ (attempt = 1 /\ Len(config) = 1)
                 => BytesField(conversation_state)
                        = config[1].conversation_state

\* C20 as stated: when a turn has returned, no future submitted so far is
\* pending, those submitted in attempts that failed and were retried
\* included.  (Every turn before it returned too, so a future of an earlier
\* turn is covered by that turn's return.)
C20_AllAttemptsJoined ==
    result.kind = "returned"
        => \A i \in 1..Len(executor) : executor[i] # "pending"

\* C21: a turn returns only after stop_playback, called once the last
\* response of the attempt has been processed, has left the channel not
\* playing, whether or not the attempt wrote audio; and from the failure of
\* an attempt to the end of a session that an error leaves, nothing stops
\* recording or playback: the channel keeps the flags the last processed
\* response left.
C21_StopOnReturnOnly ==
    [][ /\ (pc = "finish" /\ pc' # "finish")
            => (pc' = "return" /\ ~conversation_stream'.playing)
        /\ (pc = "return" /\ pc' # "return")
            => /\ result'.kind = "returned"
               /\ ~conversation_stream.playing
               /\ conversation_stream' = conversation_stream
        /\ (nResponses' = nResponses /\ (pc' \in {"failed", "raise"}
                                            \/ pc = "raise"))
            => /\ conversation_stream'.recording
                     = conversation_stream.recording
               /\ conversation_stream'.playing = conversation_stream.playing
      ]_vars

C21_Witness ==
    /\ pc = "exited"
    /\ result.kind = "raised"
    /\ conversation_stream.playing
    /\ written # << >>

\* C22: every attempt, a retried one included, begins with recording on and
\* no response of it processed yet, and while an attempt lasts recording,
\* once off, is not turned on again.
C22_RecordingStartedPerAttempt ==
    [][ /\ (turn' # turn \/ attempt' # attempt)
            => /\ conversation_stream'.recording
               /\ nResponses' = nResponses
               /\ written' = << >>
        /\ (turn' = turn /\ attempt' = attempt
               /\ ~conversation_stream.recording)
            => ~conversation_stream'.recording ]_vars

C22_Witness ==
    /\ attempt = 2
    /\ pc = "loop"
    /\ conversation_stream.recording
    /\ conversation_stream.playing
    /\ written = << >>

\* The values of a config that the session fixes when it starts.
FixedConfig(c) ==
    /\ c.sample_rate_hertz = 16000
    /\ c.language_code = "en-US"
    /\ c.device_id = "device-id"
    /\ c.device_model_id = "device-model-id"
    /\ c.screen_mode = IF display THEN PLAYING ELSE ""

\* C23 as stated: every config carries the language, device identifiers,
\* sample rate, volume and display setting the session started with.
C23_Original ==
    Len(config) = 1
        => (FixedConfig(config[1])
              /\ config[1].volume_percentage = DefaultVolume)

\* C23 amended: every config carries the language, device identifiers,
\* sample rate and display setting the session started with, and as its
\* volume the channel's output volume at the moment the config is built:
\* the starting volume in the first attempt of the session, afterwards the
\* volume the processed responses have left.
C23_Amended ==
    [][ (pcGen = "config" /\ pcGen' = "audio")
           => /\ FixedConfig(config'[1])
              /\ config'[1].volume_percentage
                     = conversation_stream.volume_percentage
              /\ (turn = 1 /\ attempt = 1)
                     => config'[1].volume_percentage = DefaultVolume ]_vars

C23_Witness ==
    /\ turn = 2
    /\ display
    /\ Len(config) = 1
    /\ FixedConfig(config[1])
    /\ config[1].volume_percentage = 80

\* C24: in every state of the response loop, whatever response comes
\* next, processing it leaves the channel's volume at the volume v its
\* dialog_state_out carries when v is not 0 and as it was when v is 0; the
\* channel's volume changes in no other step.
C24_VolumeRule ==
    /\ [](pc = "loop" =>
            \A m \in Responses :
               OnResponseChannel(conversation_stream,
                                 Response(m, audioIn)).volume_percentage
                  = IF m.volume_percentage # 0
                      THEN m.volume_percentage
                      ELSE conversation_stream.volume_percentage)
    /\ [][ nResponses' = nResponses
             => conversation_stream'.volume_percentage
                   = conversation_stream.volume_percentage ]_vars

C24_Witness ==
    /\ pc = "loop"
    /\ nResponses = 2
    /\ conversation_stream.volume_percentage = 80
    /\ lastToken = "t1"

\* C25 as stated: within an attempt the generator yields no audio request
\* once recording has been stopped, and once recording has been stopped the
\* generator ends.
C25_Original ==
    /\ [](lateAudio = 0)
    /\ (pc = "loop" /\ pcGen \in {"audio", "yield"}
           /\ ~conversation_stream.recording)
          ~> (pcGen = "done")

\* C25 amended: within an attempt the generator yields at most one audio
\* request once recording has been stopped, and once recording has been
\* stopped the generator, pulled by the transport, ends unless the attempt
\* leaves the response loop first.
C25_Amended ==
    /\ [](lateAudio <= 1)
    /\ (pc = "loop" /\ pcGen \in {"audio", "yield"}
           /\ ~conversation_stream.recording)
          ~> (pcGen = "done" \/ pc # "loop")

C25_Witness ==
    /\ pc = "loop"
    /\ pcGen = "done"
    /\ ~conversation_stream.recording
    /\ lateAudio = 1
    /\ requests = << "config", "audio_in" >>

\* C26: in every state of the response loop, processing an
\* END_OF_UTTERANCE that carries nothing else and then another one leaves
\* the channel as the first left it, and when recording is already off
\* (after an END_OF_UTTERANCE or after playback has started) it leaves the
\* channel as it is; such a response changes neither the token nor
\* continue_conversation, submits no future and raises nothing.
C26_RepeatedEndOfUtterance ==
    pc = "loop" =>
        LET eou == ScenarioStream[1]
            first == OnResponseChannel(conversation_stream, eou)
        IN  /\ OnResponseChannel(first, eou) = first
            /\ ~conversation_stream.recording => first = conversation_stream
            /\ OnConversationState(conversation_state, eou)
                   = conversation_state
            /\ OnMicrophoneMode(continue_conversation, eou)
                   = continue_conversation
            /\ Submitted(eou) = 0
            /\ ~Raises(eou)

\* an END_OF_UTTERANCE has been processed, playback is on, and another
\* END_OF_UTTERANCE can be received
C26_Witness ==
    /\ scenario = 2
    /\ conversation_stream.playing
    /\ ENABLED Receive(ScenarioStream[1])

\* C27: a config carries is_new_conversation = TRUE only if no config was
\* built before it in the session: building a config hands on the flag as
\* it stands and clears it, and nothing sets it again, a retry included;
\* so the config of an attempt that retries one whose config was built
\* carries FALSE.
C27_NewConversationFirstConfigOnly ==
    [][ /\ (pcGen = "config" /\ pcGen' = "audio")
            => /\ config'[1].is_new_conversation = is_new_conversation
               /\ ~is_new_conversation'
        /\ ~(pcGen = "config" /\ pcGen' = "audio")
            => is_new_conversation' = is_new_conversation ]_vars

C27_Witness ==
    /\ turn = 1
    /\ attempt = 2
    /\ Len(config) = 1
    /\ ~config[1].is_new_conversation

\* C28: the locals of assist() reflect the responses of the current attempt
\* only: continue_conversation is TRUE just when the last microphone mode
\* received in this attempt is DIALOG_FOLLOW_ON, and the handles kept are
\* exactly the futures submitted in this attempt; so what a failed attempt
\* received has no part in the value a later attempt returns.
C28_AttemptLocal ==
    /\ continue_conversation <=> (lastMic = DIALOG_FOLLOW_ON)
    /\ { device_actions_futures[i] : i \in 1..Len(device_actions_futures) }
          = dispatched
    /\ Len(device_actions_futures) = Cardinality(dispatched)

C28_Witness ==
    /\ result = [kind |-> "returned", value |-> FALSE]
    /\ attempt = 2
    /\ Len(executor) = 1
    /\ device_actions_futures = << >>

\* C29: when the response stream of every attempt ends or fails and every
\* submitted device action completes, a call of assist() that has begun
\* returns a value or raises, and it makes at most three attempts.
C29_TurnTerminates ==
    /\ [](attempt <= StopAfterAttempt)
    /\ (pc = "loop") ~> (result.kind \in {"returned", "raised"})

C29_Witness ==
    /\ result.kind = "returned"
    /\ attempt = StopAfterAttempt
    /\ dispatched # {}

=============================================================================
